---- MODULE Spec2Model ----
(***************************************************************************)
(* A model of logmine-rs: the distance scorer (scoring.rs), the pattern    *)
(* merger (pattern.rs), the online clusterer (clusterer.rs), the buffer    *)
(* pool (pool.rs), the single-core runner (lib.rs) and the parallel        *)
(* harness with its cross-worker reduction (parallel_clusterer.rs).        *)
(*                                                                         *)
(* Characters are one-character strings, a line and the text of a token    *)
(* are sequences of characters.  Where the clusterer and the harness are   *)
(* run, distances are kept as exact fractions [num, den]; the thresholds   *)
(* and lengths used there are ones on which the f64 comparison and the     *)
(* exact comparison agree.  distance64 is the same function computed as    *)
(* the code computes it, in IEEE 754 binary64.                             *)
(***************************************************************************)
EXTENDS Integers, Sequences, FiniteSets, TLC

\* ------------------------------------------------------------------ bounds
\* number of process_line calls made on a single clusterer
MaxRecords == 3
\* largest min_members option tried
MaxMinMembers == 2
\* most lines in the file given to the parallel harness
MaxFileLines == 3
\* longest Pattern handed to distance and merge directly
MaxPatternLen == 3
\* the largest capacity of a StringPool used directly
MaxCapacity == 3
\* most tokens in a record whose distance is computed in f64
MaxTokens == 9
\* most lines in the file when a worker's pool holds LOCK_STEAL_ATTEMPTS
\* Strings or more
MaxLongFile == 5

\* ------------------------------------------------------------- characters
NL == "\n"
Space == " "
Whitespace == {Space, NL}

\* ---------------------------------------------------------------- helpers
Max(x, y) == IF x >= y THEN x ELSE y
Min(x, y) == IF x <= y THEN x ELSE y

SeqsUpTo(S, n) == UNION { [1..k -> S] : k \in 0..n }

\* Value(S) is the element of a one-element set.  { e(v) : v \in {x} } is
\* used below where LET v == x IN e(v) would do: it evaluates x once.
Value(S) == CHOOSE v \in S : TRUE

\* ------------------------------------------------------- pattern elements
\* pattern.rs: enum PatternElement { Text(Cow<str>), Placeholder }
Text(t) == [kind |-> "Text", text |-> t]
Placeholder == [kind |-> "Placeholder", text |-> <<>>]

\* ------------------------------------------------------------- tokenizer
\* Regex::split with the separator \s+ : the pieces between the maximal
\* runs of whitespace, an empty piece before a leading and after a trailing
\* run; the empty line gives one empty piece.
RECURSIVE Split(_)
Split(line) ==
    IF line = <<>> THEN << <<>> >>
    ELSE Value({ IF Head(line) \notin Whitespace
                    THEN << <<Head(line)>> \o Head(rest) >> \o Tail(rest)
                 ELSE IF Tail(line) # <<>> /\ Head(Tail(line)) \in Whitespace
                    THEN rest
                 ELSE << <<>> >> \o rest :
                   rest \in { Split(Tail(line)) } })

\* process_line, lines 77-80: one Text element per piece of the split
Tokenize(line) ==
    Value({ [i \in 1..Len(pieces) |-> Text(pieces[i])] : pieces \in { Split(line) } })

\* ---------------------------------------------------------------- scoring
\* A score that lets a Placeholder of the first Pattern match anything.
score_wildcard(f1, f2) == IF f1 = f2 \/ f1 = Placeholder THEN 1 ELSE 0

\* scoring.rs score(): 1.0 when the elements are equal, else 0.0
score(f1, f2) == IF f1 = f2 THEN 1 ELSE 0

\* exact fractions
Frac(n, d) == [num |-> n, den |-> d]
FracLt(x, y) == x.num * y.den < y.num * x.den
FracLe(x, y) == x.num * y.den <= y.num * x.den
FracEq(x, y) == x.num * y.den = y.num * x.den

\* A distance that also returns at the first pair that differs.
RECURSIVE distanceFrom_giveup(_, _, _, _, _)
distanceFrom_giveup(fields1, fields2, max_dist, i, k) ==
    LET max_len == Max(Len(fields1), Len(fields2))
        zipped == Min(Len(fields1), Len(fields2))
    IN  IF i > zipped
           THEN IF max_len = 0 THEN Frac(1, 1) ELSE Frac(max_len - k, max_len)
        ELSE LET k2 == k + score(fields1[i], fields2[i])
                 d == Frac(max_len - k2, max_len)
             IN  IF FracLt(d, max_dist) \/ k2 = k THEN d
                 ELSE distanceFrom_giveup(fields1, fields2, max_dist, i + 1, k2)

\* scoring.rs distance(): walks the zipped pairs, total += score / max_len,
\* returns 1 - total as soon as it is below max_dist, else after the last
\* pair.  k is the number of equal pairs seen so far, i the next position.
\* With max_len = 0 the loop body never runs and the result is 1.0 - 0.0.
RECURSIVE distanceFrom(_, _, _, _, _)
distanceFrom(fields1, fields2, max_dist, i, k) ==
    LET max_len == Max(Len(fields1), Len(fields2))
        zipped == Min(Len(fields1), Len(fields2))
    IN  IF i > zipped
           THEN IF max_len = 0 THEN Frac(1, 1) ELSE Frac(max_len - k, max_len)
        ELSE LET k2 == k + score(fields1[i], fields2[i])
                 d == Frac(max_len - k2, max_len)
             IN  IF FracLt(d, max_dist) THEN d
                 ELSE distanceFrom(fields1, fields2, max_dist, i + 1, k2)

distance(fields1, fields2, max_dist) ==
    distanceFrom(fields1, fields2, max_dist, 1, 0)

\* ------------------------------------------------------ scoring in binary64
\* distance computes in f64.  The f64 values it meets are 0.0, score / max_len,
\* the running total, 1.0 - total and max_dist; for max_len <= 16 and
\* max_dist 0 or >= 0.01 each of them is a whole number of units of 2^-59,
\* kept here as [neg, hi, lo]: the value is (hi * 2^30 + lo) * 2^-59,
\* negated when neg.  hi and lo stay below 2^31.
Limb == 2^30
F64(hi, lo) == [neg |-> FALSE, hi |-> hi, lo |-> lo]
Zero64 == F64(0, 0)
One64 == F64(2^29, 0)

\* lo brought back below 2^30
Carry(hi, lo) == IF lo >= Limb THEN F64(hi + 1, lo - Limb) ELSE F64(hi, lo)

\* the number of bits a magnitude has beyond the 53 of an f64 significand
RECURSIVE ExcessBits(_)
ExcessBits(hi) == IF hi < 2^23 THEN 0 ELSE 1 + ExcessBits(hi \div 2)

\* IEEE 754 round-to-nearest, ties to even, of the magnitude hi * 2^30 + lo
\* plus a fraction of a unit: below is 0 when the fraction is 0, 1 when it is
\* under a half, 2 when it is a half, 3 when it is over a half
RoundNearestEven(hi, lo, below) ==
    LET s == ExcessBits(hi)
        unit == 2^s
        rem == lo % unit
        kept == lo - rem
        up == IF s = 0 THEN below = 3 \/ (below = 2 /\ lo % 2 = 1)
              ELSE \/ 2 * rem > unit
                   \/ 2 * rem = unit /\ (below # 0 \/ (kept \div unit) % 2 = 1)
    IN  IF up THEN Carry(hi, kept + unit) ELSE F64(hi, kept)

\* the f64 nearest to n / m, for 0 <= n <= m < 2^16: long division, 14 bits
\* and then three times 15 bits, and the remainder against half of m
Quotient(n, m) ==
    LET t0 == n * 2^14
        t1 == (t0 % m) * 2^15
        t2 == (t1 % m) * 2^15
        t3 == (t2 % m) * 2^15
        r == t3 % m
        hi == (t0 \div m) * 2^15 + (t1 \div m)
        lo == (t2 \div m) * 2^15 + (t3 \div m)
        below == IF r = 0 THEN 0 ELSE IF 2 * r < m THEN 1 ELSE IF 2 * r = m THEN 2 ELSE 3
    IN  RoundNearestEven(hi, lo, below)

\* x + y in f64, for x and y not negative
Add64(x, y) ==
    LET c == Carry(x.hi + y.hi, x.lo + y.lo)
    IN  RoundNearestEven(c.hi, c.lo, 0)

\* 1.0 - t in f64, for t not negative: negative when t is above 1.0
OneMinus(t) ==
    IF t.hi > One64.hi \/ (t.hi = One64.hi /\ t.lo > 0)
       THEN [neg |-> TRUE, hi |-> t.hi - One64.hi, lo |-> t.lo]
    ELSE IF t.lo = 0 THEN RoundNearestEven(One64.hi - t.hi, 0, 0)
    ELSE RoundNearestEven(One64.hi - t.hi - 1, Limb - t.lo, 0)

\* x < y and x <= y in f64
Lt64(x, y) ==
    IF x.neg /\ ~y.neg THEN x.hi + x.lo > 0 \/ y.hi + y.lo > 0
    ELSE IF ~x.neg /\ y.neg THEN FALSE
    ELSE IF x.neg THEN y.hi < x.hi \/ (y.hi = x.hi /\ y.lo < x.lo)
    ELSE x.hi < y.hi \/ (x.hi = y.hi /\ x.lo < y.lo)
Le64(x, y) == ~Lt64(y, x)

\* scoring.rs distance() in f64, from pair i on with the running total:
\* total += score / max_len (line 8), where 0.0 / max_len adds nothing;
\* return 1.0 - total when it is below max_dist (lines 10-12) or after the
\* last pair (line 15).  With max_len = 0 the loop body never runs.
RECURSIVE distance64From(_, _, _, _, _)
distance64From(fields1, fields2, max_dist, i, total) ==
    LET max_len == Max(Len(fields1), Len(fields2))
        zipped == Min(Len(fields1), Len(fields2))
    IN  IF i > zipped THEN OneMinus(total)
        ELSE LET total2 == IF score(fields1[i], fields2[i]) = 1
                              THEN Add64(total, Quotient(1, max_len))
                           ELSE total
             IN  IF Lt64(OneMinus(total2), max_dist) THEN OneMinus(total2)
                 ELSE distance64From(fields1, fields2, max_dist, i + 1, total2)

distance64(fields1, fields2, max_dist) ==
    distance64From(fields1, fields2, max_dist, 1, Zero64)

\* ---------------------------------------------------------------- merging
\* A strategy that scores a pair of unequal elements above a gap.
AlignScore_rewarded == Max(1, 0 - 1)

\* The strategy of pattern.rs line 84: SmithWaterman::new(10, -1, 0, 0)
EqualScore == 10
AlignScore == 0 - 1
InsertScore == 0
DeleteScore == 0

\* A predicate under which every element equals every other.
ItemsEqual_always(items1, items2, x, y) == x = x

\* the predicate handed to the aligner, pattern.rs line 90
ItemsEqual(items1, items2, x, y) == items1[x] = items2[y]

\* One row of the alignment matrix from the row above it (left to right).
\* Row entries are indexed 1..m+1 for the columns 0..m.
RECURSIVE NextRowFrom(_, _, _, _, _, _)
NextRowFrom(prev, items1, items2, x, y, acc) ==
    IF y > Len(items2) THEN acc
    ELSE LET diag == prev[y] + (IF ItemsEqual(items1, items2, x, y)
                                   THEN EqualScore ELSE AlignScore)
             up == prev[y + 1] + DeleteScore
             left == acc[y] + InsertScore
             cell == Max(0, Max(diag, Max(up, left)))
         IN  Value({ NextRowFrom(prev, items1, items2, x, y + 1, acc2) :
                       acc2 \in { Append(acc, cell) } })

\* The matrix of the rows 0..x (indexed 1..x+1); row 0 and column 0 are the
\* accumulated gap scores clamped at 0, which is 0 with free gaps.
RECURSIVE AlignmentMatrix(_, _, _)
AlignmentMatrix(items1, items2, x) ==
    IF x = 0 THEN << [y \in 1..(Len(items2) + 1) |-> Max(0, (y - 1) * InsertScore)] >>
    ELSE Value({ Append(M, NextRowFrom(M[x], items1, items2, x,
                                       1, << Max(0, x * DeleteScore) >>)) :
                   M \in { AlignmentMatrix(items1, items2, x - 1) } })

\* pattern.rs lines 107-112: a Delete or Insert step pushes one Placeholder
\* unless the step before it pushed one
GapStep(r) ==
    IF r.just_inserted_placeholder THEN r
    ELSE [out |-> Append(r.out, Placeholder), just_inserted_placeholder |-> TRUE]

\* An Align step that pushes what line 102 leaves behind in self.
AlignStep_leftover(r, items1, x) ==
    [out |-> Append(r.out, Placeholder), just_inserted_placeholder |-> FALSE]

\* pattern.rs lines 100-106: an Align step pushes the element of self at x
AlignStep(r, items1, x) ==
    [out |-> Append(r.out, items1[x]), just_inserted_placeholder |-> FALSE]

\* The emission loop of pattern.rs lines 97-114 over every optimal global
\* alignment of the prefixes items1[1..x], items2[1..y]: a step into (x, y)
\* belongs to an optimal alignment when it accounts for the cell's score.
\* The aligner's choice among equally good alignments is left open.
RECURSIVE MergeSteps(_, _, _, _, _)
MergeSteps(M, items1, items2, x, y) ==
    IF x = 0 /\ y = 0 THEN { [out |-> <<>>, just_inserted_placeholder |-> FALSE] }
    ELSE
      (IF x > 0 /\ y > 0
          /\ M[x + 1][y + 1] = M[x][y] + (IF ItemsEqual(items1, items2, x, y)
                                           THEN EqualScore ELSE AlignScore)
       THEN { AlignStep(r, items1, x) : r \in MergeSteps(M, items1, items2, x - 1, y - 1) }
       ELSE {})
      \cup
      (IF x > 0 /\ M[x + 1][y + 1] = M[x][y + 1] + DeleteScore
       THEN { GapStep(r) : r \in MergeSteps(M, items1, items2, x - 1, y) }
       ELSE {})
      \cup
      (IF y > 0 /\ M[x + 1][y + 1] = M[x + 1][y] + InsertScore
       THEN { GapStep(r) : r \in MergeSteps(M, items1, items2, x, y - 1) }
       ELSE {})

\* Pattern::merge (pattern.rs lines 79-117): the set of patterns the merge
\* can return, one per optimal alignment
merge(self, other) ==
    IF self = <<>> /\ other = <<>> THEN { <<>> }
    ELSE UNION { { r.out : r \in MergeSteps(M, self, other, Len(self), Len(other)) } :
                   M \in { AlignmentMatrix(self, other, Len(self)) } }

\* -------------------------------------------------------------- clusterer
\* clusterer.rs struct Cluster
Cluster(representative, count, pattern) ==
    [representative |-> representative, count |-> count, pattern |-> pattern]

\* clusterer.rs struct ClustererOptions
ClustererOptions(max_dist, min_members) ==
    [max_dist |-> max_dist, min_members |-> min_members]

\* A scan that tests the record against each cluster's running pattern
\* instead of its representative.
RECURSIVE ScanFrom_pattern(_, _, _, _)
ScanFrom_pattern(clusters, pattern, max_dist, i) ==
    IF i > Len(clusters) THEN 0
    ELSE IF FracLe(distance(clusters[i].pattern, pattern, max_dist), max_dist)
        THEN i
    ELSE ScanFrom_pattern(clusters, pattern, max_dist, i + 1)

\* The scan of process_line, lines 82-85: the index of the first cluster,
\* from position i on, whose representative scores within max_dist of the
\* pattern; 0 when the scan runs off the end of the list.
RECURSIVE ScanFrom(_, _, _, _)
ScanFrom(clusters, pattern, max_dist, i) ==
    IF i > Len(clusters) THEN 0
    ELSE IF FracLe(distance(clusters[i].representative, pattern, max_dist), max_dist)
        THEN i
    ELSE ScanFrom(clusters, pattern, max_dist, i + 1)

\* A process_line that merges the record into the matching cluster and
\* leaves the count alone.
process_line_uncounted(clusters, options, line) ==
    UNION { LET i == ScanFrom(clusters, pattern, options.max_dist, 1)
            IN  IF i # 0
                   THEN { [clusters EXCEPT
                             ![i] = Cluster(@.representative, @.count, m)] :
                            m \in merge(clusters[i].pattern, pattern) }
                ELSE { Append(clusters, Cluster(pattern, 1, pattern)) } :
              pattern \in { Tokenize(line) } }

\* A process_line that puts a new cluster at the front of the list.
process_line_prepend(clusters, options, line) ==
    UNION { LET i == ScanFrom(clusters, pattern, options.max_dist, 1)
            IN  IF i # 0
                   THEN { [clusters EXCEPT
                             ![i] = Cluster(@.representative, @.count + 1, m)] :
                            m \in merge(clusters[i].pattern, pattern) }
                ELSE { <<Cluster(pattern, 1, pattern)>> \o clusters } :
              pattern \in { Tokenize(line) } }

\* Clusterer::process_line (clusterer.rs lines 76-115) as a function of the
\* cluster list: the lists the call can leave behind (one per pattern the
\* merge can return).
process_line(clusters, options, line) ==
    UNION { LET i == ScanFrom(clusters, pattern, options.max_dist, 1)
            IN  IF i # 0
                   THEN { [clusters EXCEPT
                             ![i] = Cluster(@.representative, @.count + 1, m)] :
                            m \in merge(clusters[i].pattern, pattern) }
                ELSE { Append(clusters, Cluster(pattern, 1, pattern)) } :
              pattern \in { Tokenize(line) } }

\* A take_result that keeps the clusters with more than min_members members.
take_result_strict(clusters, options) ==
    SelectSeq(clusters, LAMBDA c : c.count > options.min_members)

\* Clusterer::take_result (clusterer.rs lines 117-123): what the iterator
\* yields; the cluster list itself is taken, leaving the empty list.
take_result(clusters, options) ==
    SelectSeq(clusters, LAMBDA c : c.count >= options.min_members)

\* ------------------------------------------------------------------ inputs
\* two one-letter words
A == <<"a">>
B == <<"b">>

\* the words of a line joined by single spaces
RECURSIVE Join(_)
Join(ws) ==
    IF ws = <<>> THEN <<>>
    ELSE IF Len(ws) = 1 THEN ws[1]
    ELSE ws[1] \o <<Space>> \o Join(Tail(ws))

\* Lines handed to process_line directly, as the unit tests do (no
\* newline): the empty line, lines of one, two and three one-letter words.
LineWords ==
    { <<>>, <<A>>, <<A, A>>, <<A, B>>, <<B, A>>, <<B, B>>,
      <<A, A, A>>, <<A, B, B>>, <<B, B, B>> }
Lines == { Join(ws) : ws \in LineWords }

\* Lines of a file as read_line returns them, the newline included
FileWords == { <<A>>, <<B>> }
FileLines == { Join(ws) \o <<NL>> : ws \in FileWords }

\* max_dist: 0.01 (the engine's default), 0.5 (the unit tests), 0.75
MaxDists == { Frac(1, 100), Frac(1, 2), Frac(3, 4) }

OptionSet == { ClustererOptions(d, m) : d \in MaxDists, m \in 1..MaxMinMembers }

\* the options and the thread pools the parallel harness is run with
HarnessMaxDists == { Frac(1, 100), Frac(1, 2) }
HarnessOptionSet ==
    { ClustererOptions(d, m) : d \in HarnessMaxDists, m \in 1..MaxMinMembers }
ThreadCounts == {1, 2}
\* read_chunk_size: below LOCK_STEAL_ATTEMPTS and not
ChunkSizes == {1, 2, 4}
AllThreads == UNION { 1..n : n \in ThreadCounts }

\* ------------------------------------------------------------------- state
VARIABLES
    clusters,        \* Clusterer.clusters of the clusterer driven directly
    options,         \* its ClustererOptions (also the options of run)
    calls,           \* number of process_line calls made on it
    result,          \* what its last take_result returned
    members,         \* per cluster of that list, the calls that went into it:
                     \* [line, at], at being the number of the call
    file,            \* the lines of the shared source
    pos,             \* index of the next line read_line returns
    read_chunk_size, \* capacity of each worker's StringPool
    num_threads,     \* pool.current_num_threads()
    mutex,           \* the worker holding the file lock, 0 when free
    pc,              \* where each worker is in run_single_thread
    lines,           \* each worker's StringPool [live, dead]
    attempt,         \* each worker's counter of the LOCK_STEAL_ATTEMPTS loop
    range_left,      \* iterations left of each worker's 0..range_max loop
    worker_clusters, \* the cluster list of each worker's private Clusterer
    rx,              \* the result channel
    total,           \* the coordinator's total
    main_pc,         \* where run is: "scope", "recv", "done" ("off": not running)
    read_log,        \* per worker, the file positions it read, in order
    held_run,        \* the file positions read since the lock was last taken
    proc_log,        \* per worker, the file positions it passed to process_line
    pattern_a,       \* first Pattern handed to a function called directly
    pattern_b,       \* second Pattern handed to it
    threshold,       \* the max_dist handed to distance
    returned,        \* what the function returned: [fn, value]; NoCall before
    string_pool,     \* a StringPool used directly: [live, dead, capacity]
    pool_ref         \* the PoolRef taken from it and not yet dropped: NoRef,
                     \* or [line, target, from, stayed]: its String, its
                     \* Target, the Vec it was popped off, and whether
                     \* stay_dead was called on it

clusterer_vars == <<clusters, calls, result, members>>
harness_vars == <<file, pos, read_chunk_size, num_threads, mutex, pc, lines, attempt,
                  range_left, worker_clusters, rx, total, main_pc, read_log, held_run,
                  proc_log>>
unit_vars == <<pattern_a, pattern_b, threshold, returned, string_pool, pool_ref>>
vars == <<clusters, options, calls, result, members, file, pos, read_chunk_size, num_threads,
          mutex, pc, lines, attempt, range_left, worker_clusters, rx, total, main_pc,
          read_log, held_run, proc_log, pattern_a, pattern_b, threshold, returned,
          string_pool, pool_ref>>

\* The harness when it is not running
HarnessOff ==
    /\ file = <<>> /\ pos = 1 /\ read_chunk_size = 0 /\ num_threads = 0
    /\ mutex = 0 /\ pc = <<>> /\ lines = <<>> /\ attempt = <<>> /\ range_left = <<>>
    /\ worker_clusters = <<>> /\ rx = <<>> /\ total = <<>> /\ main_pc = "off"
    /\ read_log = <<>> /\ held_run = <<>> /\ proc_log = <<>>

\* no function has been called directly, no pool is used directly
NoCall == [fn |-> "none", value |-> <<>>]
NoRef == [line |-> [text |-> <<>>, src |-> 0], target |-> "none", from |-> "none",
          stayed |-> FALSE]
UnitOff ==
    /\ pattern_a = <<>> /\ pattern_b = <<>> /\ threshold = [num |-> 0, den |-> 1]
    /\ returned = NoCall
    /\ string_pool = [live |-> <<>>, dead |-> <<>>, capacity |-> 0]
    /\ pool_ref = NoRef

\* ------------------------------------------- a clusterer driven directly
\* Clusterer::new (clusterer.rs lines 67-74)
Init ==
    /\ options \in OptionSet
    /\ clusters = <<>>
    /\ calls = 0
    /\ result = <<>>
    /\ members = <<>>
    /\ HarnessOff
    /\ UnitOff

\* one call of process_line on a line; members records where the call went:
\* into the new last cluster, or into the one cluster that changed
ProcessLine(line) ==
    /\ main_pc = "off"
    /\ calls < MaxRecords
    /\ clusters' \in process_line(clusters, options, line)
    /\ calls' = calls + 1
    /\ LET call == [line |-> line, at |-> calls + 1]
       IN  members' =
             IF Len(clusters') > Len(members) THEN Append(members, <<call>>)
             ELSE [i \in 1..Len(members) |->
                     IF clusters'[i] # clusters[i] THEN Append(members[i], call)
                     ELSE members[i]]
    /\ UNCHANGED <<options, result>>
    /\ UNCHANGED harness_vars
    /\ UNCHANGED unit_vars

\* A take_result that leaves the clusters it does not return in the list.
TakeResult_leaves_filtered ==
    /\ main_pc = "off"
    /\ result' = take_result(clusters, options)
    /\ clusters' = SelectSeq(clusters, LAMBDA c : c.count < options.min_members)
    /\ members' = SelectSeq(members, LAMBDA ms : Len(ms) < options.min_members)
    /\ UNCHANGED <<options, calls>>
    /\ UNCHANGED harness_vars
    /\ UNCHANGED unit_vars

\* one call of take_result: the filtered list is returned, the list is taken
TakeResult ==
    /\ main_pc = "off"
    /\ result' = take_result(clusters, options)
    /\ clusters' = <<>>
    /\ members' = <<>>
    /\ UNCHANGED <<options, calls>>
    /\ UNCHANGED harness_vars
    /\ UNCHANGED unit_vars

ProcessAnyLine == \E line \in Lines : ProcessLine(line)

Next ==
    \/ ProcessAnyLine
    \/ TakeResult

Spec == Init /\ [][Next]_vars

\* --------------------------------------------------------------- the pool
\* A String of the pool: its text, and src, the file position of the
\* read_line that last wrote it (0: none; src only serves the logs).
Buffer(text, src) == [text |-> text, src |-> src]
EmptyString == Buffer(<<>>, 0)

\* StringPool::with_capacity (pool.rs lines 30-38)
with_capacity(capacity) ==
    [live |-> <<>>, dead |-> [i \in 1..capacity |-> EmptyString], capacity |-> capacity]

Front(q) == SubSeq(q, 1, Len(q) - 1)
Last(q) == q[Len(q)]

\* StringPool::take_live (pool.rs lines 54-62): the String popped off live
take_live(pool) == Last(pool.live)
\* the pool once the PoolRef of take_live is dropped (target Dead)
release_live(pool, line) ==
    [pool EXCEPT !.live = Front(pool.live), !.dead = Append(pool.dead, line)]

\* StringPool::take_dead (pool.rs lines 67-77): the String popped off dead
\* is cleared
take_dead(pool) == [Last(pool.dead) EXCEPT !.text = <<>>, !.src = 0]
\* A drop that sends the String of take_dead to live whether or not
\* stay_dead was called.
release_dead_to_live(pool, line, stay_dead) ==
    [pool EXCEPT !.dead = Front(pool.dead), !.live = Append(pool.live, line)]

\* the pool once the PoolRef of take_dead is dropped: to live, or to dead
\* after stay_dead (pool.rs lines 89-102)
release_dead(pool, line, stay_dead) ==
    IF stay_dead
       THEN [pool EXCEPT !.dead = Append(Front(pool.dead), line)]
    ELSE [pool EXCEPT !.dead = Front(pool.dead), !.live = Append(pool.live, line)]

\* BufRead::read_line at position pos of the file: the line, its newline
\* included, is appended to the String
read_line(line, source, at) == Buffer(line.text \o source[at], at)

\* ------------------------------------------------------------ the harness
\* parallel_clusterer.rs line 17
LOCK_STEAL_ATTEMPTS == 4

Threads == 1..num_threads

\* run (parallel_clusterer.rs lines 27-44) once the workers are spawned:
\* each has a fresh Clusterer and a pool of read_chunk_size dead strings
\* (lines 72-74) and is about to take the file lock.
HarnessInit ==
    /\ options \in HarnessOptionSet
    /\ clusters = <<>> /\ calls = 0 /\ result = <<>> /\ members = <<>>
    /\ file \in SeqsUpTo(FileLines, MaxFileLines)
    /\ pos = 1
    /\ read_chunk_size \in ChunkSizes
    /\ num_threads \in ThreadCounts
    /\ mutex = 0
    /\ pc = [w \in Threads |-> "lock"]
    /\ lines = [w \in Threads |-> with_capacity(read_chunk_size)]
    /\ attempt = [w \in Threads |-> 0]
    /\ range_left = [w \in Threads |-> 0]
    /\ worker_clusters = [w \in Threads |-> <<>>]
    /\ rx = <<>>
    /\ total = <<>>
    /\ main_pc = "scope"
    /\ read_log = [w \in Threads |-> <<>>]
    /\ held_run = <<>>
    /\ proc_log = [w \in Threads |-> <<>>]
    /\ UnitOff

\* lines 86-90: the number of lines processed before the next try_lock
range_max(pool) ==
    IF pool.capacity < LOCK_STEAL_ATTEMPTS THEN Len(pool.live)
    ELSE Min(pool.capacity \div LOCK_STEAL_ATTEMPTS, Len(pool.live))

\* the head of one iteration of the loop of line 85, entered with counter n:
\* past the last iteration control returns to the blocking lock of line 77
Iteration(w, n, pool) ==
    IF n >= LOCK_STEAL_ATTEMPTS
       THEN /\ pc' = [pc EXCEPT ![w] = "lock"]
            /\ attempt' = [attempt EXCEPT ![w] = 0]
            /\ range_left' = [range_left EXCEPT ![w] = 0]
    ELSE /\ attempt' = [attempt EXCEPT ![w] = n]
         /\ range_left' = [range_left EXCEPT ![w] = range_max(pool)]
         /\ pc' = [pc EXCEPT ![w] = IF range_max(pool) = 0 THEN "try_lock" ELSE "process"]

\* line 77: file.lock()
Lock(w) ==
    /\ pc[w] = "lock"
    /\ mutex = 0
    /\ mutex' = w
    /\ held_run' = <<>>
    /\ pc' = [pc EXCEPT ![w] = "fill"]
    /\ UNCHANGED <<unit_vars, clusterer_vars, options, file, pos, read_chunk_size,
                   num_threads, lines, attempt, range_left, worker_clusters, rx,
                   total, main_pc, read_log, proc_log>>

\* fill (lines 55-62), one turn of its loop, under the lock of line 77
\* ("fill") or of line 100 ("steal_fill"): a dead String is taken and
\* read_line is called on it; at the end of the file the String stays dead
\* and the loop ends; the loop also ends when no dead String is left.
Fill(w) ==
    /\ pc[w] \in {"fill", "steal_fill"}
    /\ mutex = w
    /\ LET after == IF pc[w] = "fill" THEN "unlock" ELSE "steal_check"
           pool == lines[w]
       IN  IF pool.dead = <<>>
              THEN /\ pc' = [pc EXCEPT ![w] = after]
                   /\ UNCHANGED <<lines, pos, read_log, held_run>>
           ELSE IF pos > Len(file)
              THEN /\ lines' = [lines EXCEPT ![w] = release_dead(pool, take_dead(pool), TRUE)]
                   /\ pc' = [pc EXCEPT ![w] = after]
                   /\ UNCHANGED <<pos, read_log, held_run>>
           ELSE /\ lines' = [lines EXCEPT ![w] =
                                release_dead(pool, read_line(take_dead(pool), file, pos),
                                             FALSE)]
                /\ pos' = pos + 1
                /\ read_log' = [read_log EXCEPT ![w] = Append(@, pos)]
                /\ held_run' = Append(held_run, pos)
                /\ pc' = [pc EXCEPT ![w] = IF Len(pool.dead) = 1 THEN after ELSE @]
    /\ UNCHANGED <<unit_vars, clusterer_vars, options, file, read_chunk_size, num_threads,
                   mutex, attempt, range_left, worker_clusters, rx, total, main_pc,
                   proc_log>>

\* lines 80-85: drop(lock); leave the loop when nothing is live, else enter
\* the loop of line 85
Unlock(w) ==
    /\ pc[w] = "unlock"
    /\ mutex' = 0
    /\ IF lines[w].live = <<>>
          THEN /\ pc' = [pc EXCEPT ![w] = "send"]
               /\ UNCHANGED <<attempt, range_left>>
       ELSE Iteration(w, 0, lines[w])
    /\ UNCHANGED <<unit_vars, clusterer_vars, options, file, pos, read_chunk_size,
                   num_threads, lines, worker_clusters, rx, total, main_pc, read_log,
                   held_run, proc_log>>

\* lines 93-97, one turn: take_live, process_line, the PoolRef is dropped
Process(w) ==
    /\ pc[w] = "process"
    /\ LET line == take_live(lines[w])
       IN  /\ worker_clusters' \in
                { [worker_clusters EXCEPT ![w] = cs] :
                    cs \in process_line(worker_clusters[w], options, line.text) }
           /\ lines' = [lines EXCEPT ![w] = release_live(@, line)]
           /\ proc_log' = [proc_log EXCEPT ![w] = Append(@, line.src)]
    /\ range_left' = [range_left EXCEPT ![w] = @ - 1]
    /\ pc' = [pc EXCEPT ![w] = IF range_left[w] = 1 THEN "try_lock" ELSE "process"]
    /\ UNCHANGED <<unit_vars, clusterer_vars, options, file, pos, read_chunk_size,
                   num_threads, mutex, attempt, rx, total, main_pc, read_log, held_run>>

\* line 100: file.try_lock(); on failure the loop of line 85 goes on
TryLock(w) ==
    /\ pc[w] = "try_lock"
    /\ IF mutex = 0
          THEN /\ mutex' = w
               /\ held_run' = <<>>
               /\ pc' = [pc EXCEPT ![w] = "steal_fill"]
               /\ UNCHANGED <<attempt, range_left>>
       ELSE /\ Iteration(w, attempt[w] + 1, lines[w])
            /\ UNCHANGED <<mutex, held_run>>
    /\ UNCHANGED <<unit_vars, clusterer_vars, options, file, pos, read_chunk_size,
                   num_threads, lines, worker_clusters, rx, total, main_pc, read_log,
                   proc_log>>

\* A check that leaves the outer loop as soon as the file is at its end,
\* whatever is live.
StealCheck_eof(w) ==
    /\ pc[w] = "steal_check"
    /\ mutex' = 0
    /\ IF lines[w].live = <<>> \/ pos > Len(file)
          THEN /\ pc' = [pc EXCEPT ![w] = "send"]
               /\ UNCHANGED <<attempt, range_left>>
       ELSE Iteration(w, attempt[w] + 1, lines[w])
    /\ UNCHANGED <<unit_vars, clusterer_vars, options, file, pos, read_chunk_size,
                   num_threads, lines, worker_clusters, rx, total, main_pc, read_log,
                   held_run, proc_log>>

\* lines 102-105: after the fill under try_lock, leave the outer loop when
\* nothing is live; the lock is released either way
StealCheck(w) ==
    /\ pc[w] = "steal_check"
    /\ mutex' = 0
    /\ IF lines[w].live = <<>>
          THEN /\ pc' = [pc EXCEPT ![w] = "send"]
               /\ UNCHANGED <<attempt, range_left>>
       ELSE Iteration(w, attempt[w] + 1, lines[w])
    /\ UNCHANGED <<unit_vars, clusterer_vars, options, file, pos, read_chunk_size,
                   num_threads, lines, worker_clusters, rx, total, main_pc, read_log,
                   held_run, proc_log>>

\* A channel of one slot, whatever the number of workers.
channel_capacity_one == Min(1, num_threads)

\* line 27: crossbeam_channel::bounded(pool.current_num_threads())
channel_capacity == num_threads

\* line 109: tx.send(clusterer.take_result().collect()), which waits while
\* the channel is full
Send(w) ==
    /\ pc[w] = "send"
    /\ Len(rx) < channel_capacity
    /\ rx' = Append(rx, take_result(worker_clusters[w], options))
    /\ worker_clusters' = [worker_clusters EXCEPT ![w] = <<>>]
    /\ pc' = [pc EXCEPT ![w] = "done"]
    /\ UNCHANGED <<unit_vars, clusterer_vars, options, file, pos, read_chunk_size,
                   num_threads, mutex, lines, attempt, range_left, total, main_pc,
                   read_log, held_run, proc_log>>

\* The inner loop of the reduction (lines 118-124): the index of the first
\* cluster of total, from position j on, whose representative scores within
\* max_dist of that of cluster_a; 0 when there is none.
RECURSIVE ScanTotal(_, _, _, _)
ScanTotal(tot, cluster_a, max_dist, j) ==
    IF j > Len(tot) THEN 0
    ELSE IF FracLe(distance(cluster_a.representative, tot[j].representative, max_dist),
                   max_dist)
        THEN j
    ELSE ScanTotal(tot, cluster_a, max_dist, j + 1)

\* A reduction in which the matched cluster of total takes over the
\* representative of the worker's cluster.
RECURSIVE merge_from_takes_representative(_, _, _, _)
merge_from_takes_representative(tot, thread_results, opts, k) ==
    IF k > Len(thread_results) THEN { tot }
    ELSE LET cluster_a == thread_results[k]
             j == ScanTotal(tot, cluster_a, opts.max_dist, 1)
         IN  IF j # 0
                THEN { [tot EXCEPT ![j] = Cluster(cluster_a.representative, @.count + 1, m)] :
                         m \in merge(cluster_a.pattern, tot[j].pattern) }
             ELSE merge_from_takes_representative(Append(tot, cluster_a), thread_results,
                                                  opts, k + 1)

\* merge of parallel_clusterer.rs (lines 112-137) from the k-th cluster of
\* thread_results on: the values total can have when the function returns.
\* On a match cluster_b.count += 1, the patterns are merged and the function
\* returns (line 131); otherwise cluster_a is pushed.
RECURSIVE merge_from(_, _, _, _)
merge_from(tot, thread_results, opts, k) ==
    IF k > Len(thread_results) THEN { tot }
    ELSE LET cluster_a == thread_results[k]
             j == ScanTotal(tot, cluster_a, opts.max_dist, 1)
         IN  IF j # 0
                THEN { [tot EXCEPT ![j] = Cluster(@.representative, @.count + 1, m)] :
                         m \in merge(cluster_a.pattern, tot[j].pattern) }
             ELSE merge_from(Append(tot, cluster_a), thread_results, opts, k + 1)

merge_thread_results(tot, thread_results, opts) ==
    merge_from(tot, thread_results, opts, 1)

AllDone == \A w \in Threads : pc[w] = "done"

\* A scope that returns without waiting for the spawned workers.
ScopeEnd_early ==
    /\ main_pc = "scope"
    /\ main_pc' = "recv"
    /\ UNCHANGED <<unit_vars, clusterer_vars, options, file, pos, read_chunk_size,
                   num_threads, mutex, pc, lines, attempt, range_left, worker_clusters,
                   rx, total, read_log, held_run, proc_log>>

\* lines 31-44: pool.scope returns once every spawned worker has returned
ScopeEnd ==
    /\ main_pc = "scope"
    /\ AllDone
    /\ main_pc' = "recv"
    /\ UNCHANGED <<unit_vars, clusterer_vars, options, file, pos, read_chunk_size,
                   num_threads, mutex, pc, lines, attempt, range_left, worker_clusters,
                   rx, total, read_log, held_run, proc_log>>

\* lines 48-50: one message received and folded into total
Recv ==
    /\ main_pc = "recv"
    /\ rx # <<>>
    /\ total' \in merge_thread_results(total, Head(rx), options)
    /\ rx' = Tail(rx)
    /\ UNCHANGED <<unit_vars, clusterer_vars, options, file, pos, read_chunk_size,
                   num_threads, mutex, pc, lines, attempt, range_left, worker_clusters,
                   main_pc, read_log, held_run, proc_log>>

\* lines 48-52: the channel is empty and every sender is dropped; run
\* returns total
Return ==
    /\ main_pc = "recv"
    /\ rx = <<>>
    /\ AllDone
    /\ main_pc' = "done"
    /\ UNCHANGED <<unit_vars, clusterer_vars, options, file, pos, read_chunk_size,
                   num_threads, mutex, pc, lines, attempt, range_left, worker_clusters,
                   rx, total, read_log, held_run, proc_log>>

Worker(w) ==
    \/ Lock(w)
    \/ Fill(w)
    \/ Unlock(w)
    \/ Process(w)
    \/ TryLock(w)
    \/ StealCheck(w)
    \/ Send(w)

HarnessNext ==
    \/ \E w \in Threads : Lock(w)
    \/ \E w \in Threads : Fill(w)
    \/ \E w \in Threads : Unlock(w)
    \/ \E w \in Threads : Process(w)
    \/ \E w \in Threads : TryLock(w)
    \/ \E w \in Threads : StealCheck(w)
    \/ \E w \in Threads : Send(w)
    \/ ScopeEnd
    \/ Recv
    \/ Return

HarnessSpec == HarnessInit /\ [][HarnessNext]_vars

\* The harness under fair scheduling: a thread that can take a step does
\* not wait forever (the pool's threads and the coordinator keep running,
\* and a free lock is handed to a thread that waits for it).  Which step a
\* thread takes next depends on the number of lines, the chunk size and the
\* number of threads, not on what the lines say or on the options: the
\* lines are all "a" here, the options the unit tests' max_dist and the
\* default min_members.
FairInit ==
    /\ HarnessInit
    /\ options = ClustererOptions(Frac(1, 2), 1)
    /\ \A k \in 1..Len(file) : file[k] = Join(<<A>>) \o <<NL>>

HarnessFair == FairInit /\ [][HarnessNext]_vars /\ WF_vars(HarnessNext)

\* The harness with pools of LOCK_STEAL_ATTEMPTS Strings and more, where a
\* worker processes capacity / LOCK_STEAL_ATTEMPTS lines between two
\* try_locks (line 89), on files of up to MaxLongFile lines "a".
StealInit ==
    /\ options = ClustererOptions(Frac(1, 2), 1)
    /\ clusters = <<>> /\ calls = 0 /\ result = <<>> /\ members = <<>>
    /\ file \in { [k \in 1..n |-> Join(<<A>>) \o <<NL>>] : n \in 0..MaxLongFile }
    /\ pos = 1
    /\ read_chunk_size \in LOCK_STEAL_ATTEMPTS..(LOCK_STEAL_ATTEMPTS + 1)
    /\ num_threads \in ThreadCounts
    /\ mutex = 0
    /\ pc = [w \in Threads |-> "lock"]
    /\ lines = [w \in Threads |-> with_capacity(read_chunk_size)]
    /\ attempt = [w \in Threads |-> 0]
    /\ range_left = [w \in Threads |-> 0]
    /\ worker_clusters = [w \in Threads |-> <<>>]
    /\ rx = <<>>
    /\ total = <<>>
    /\ main_pc = "scope"
    /\ read_log = [w \in Threads |-> <<>>]
    /\ held_run = <<>>
    /\ proc_log = [w \in Threads |-> <<>>]
    /\ UnitOff

StealSpec == StealInit /\ [][HarnessNext]_vars

\* ------------------------------------------------------- the single core
\* main_single_core (lib.rs lines 21-46) from line `at` of the file on:
\* each line read is passed to process_line; at the end of the file the
\* result is taken.  The set of lists it can return.
RECURSIVE single_core_from(_, _, _, _)
single_core_from(cs, opts, source, at) ==
    IF at > Len(source) THEN { take_result(cs, opts) }
    ELSE UNION { single_core_from(cs2, opts, source, at + 1) :
                   cs2 \in process_line(cs, opts, read_line(EmptyString, source, at).text) }

main_single_core(opts, source) == single_core_from(<<>>, opts, source, 1)

\* Both ways the clusterer is run: driven directly, or by the harness
SystemSpec == (Init \/ HarnessInit) /\ [][Next \/ HarnessNext]_vars

\* ------------------------------------- distance and merge called directly
\* the words of the tests of pattern.rs
C == <<"c">>
D == <<"d">>
E == <<"e">>
F == <<"f">>

\* vec_into![...] of pattern.rs' tests: a Pattern of Text elements
TextPattern(ws) == [i \in 1..Len(ws) |-> Text(ws[i])]

\* Patterns of up to MaxPatternLen elements, Placeholders included (the
\* running pattern of a cluster holds them), and the pairs the tests of
\* pattern.rs merge
PatternElements == { Text(A), Text(B), Placeholder }
Patterns == SeqsUpTo(PatternElements, MaxPatternLen)
TestPairs ==
    { <<TextPattern(<<A, B>>), TextPattern(<<A, C>>)>>,
      <<TextPattern(<<A, C, B>>), TextPattern(<<A, B>>)>>,
      <<TextPattern(<<A, C, B>>), TextPattern(<<A, B, D>>)>>,
      <<TextPattern(<<A, B, D, E, F>>), TextPattern(<<A, B, C, E, F>>)>>,
      <<TextPattern(<<A, B, C, D>>), TextPattern(<<A, D>>)>> }
PatternPairs == (Patterns \X Patterns) \cup TestPairs

\* max_dist: 0, the default 0.01, the tests' 0.5, 0.75, 1
Thresholds == { Frac(0, 1), Frac(1, 100), Frac(1, 2), Frac(3, 4), Frac(1, 1) }

\* no clusterer and no harness is running
ClustererOff ==
    /\ options = ClustererOptions(Frac(1, 100), 1)
    /\ clusters = <<>> /\ calls = 0 /\ result = <<>> /\ members = <<>>

PatternInit ==
    /\ \E pr \in PatternPairs : pattern_a = pr[1] /\ pattern_b = pr[2]
    /\ threshold = Frac(0, 1)
    /\ returned = NoCall
    /\ string_pool = [live |-> <<>>, dead |-> <<>>, capacity |-> 0]
    /\ pool_ref = NoRef
    /\ ClustererOff
    /\ HarnessOff

\* scoring::distance(&pattern_a, &pattern_b, max_dist)
CallDistance ==
    /\ returned = NoCall
    /\ \E max_dist \in Thresholds :
         /\ threshold' = max_dist
         /\ returned' = [fn |-> "distance",
                         value |-> distance(pattern_a, pattern_b, max_dist)]
    /\ UNCHANGED <<pattern_a, pattern_b, string_pool, pool_ref>>
    /\ UNCHANGED <<clusterer_vars, options>>
    /\ UNCHANGED harness_vars

\* pattern_a.merge(pattern_b)
CallMerge ==
    /\ returned = NoCall
    /\ returned' \in { [fn |-> "merge", value |-> m] : m \in merge(pattern_a, pattern_b) }
    /\ UNCHANGED <<pattern_a, pattern_b, threshold, string_pool, pool_ref>>
    /\ UNCHANGED <<clusterer_vars, options>>
    /\ UNCHANGED harness_vars

PatternNext ==
    \/ CallDistance
    \/ CallMerge

PatternSpec == PatternInit /\ [][PatternNext]_vars

\* ---------------------------------------- distance called directly, in f64
\* the Pattern of a record of n tokens, k times "a" and then n - k times "b"
TokenRun(n, k) == [i \in 1..n |-> IF i <= k THEN Text(A) ELSE Text(B)]
TokenRuns == { TokenRun(n, k) : n \in 0..MaxTokens, k \in 0..MaxTokens }

\* max_dist as the f64 the command line parses it to
MaxDist64(max_dist) == Quotient(max_dist.num, max_dist.den)

ScoringInit ==
    /\ pattern_a \in TokenRuns
    /\ pattern_b \in TokenRuns
    /\ threshold = Frac(0, 1)
    /\ returned = NoCall
    /\ string_pool = [live |-> <<>>, dead |-> <<>>, capacity |-> 0]
    /\ pool_ref = NoRef
    /\ ClustererOff
    /\ HarnessOff

\* scoring::distance(&pattern_a, &pattern_b, max_dist), the value an f64
CallDistance64 ==
    /\ returned = NoCall
    /\ \E max_dist \in Thresholds :
         /\ threshold' = max_dist
         /\ returned' = [fn |-> "distance",
                         value |-> distance64(pattern_a, pattern_b, MaxDist64(max_dist))]
    /\ UNCHANGED <<pattern_a, pattern_b, string_pool, pool_ref>>
    /\ UNCHANGED <<clusterer_vars, options>>
    /\ UNCHANGED harness_vars

ScoringNext == CallDistance64

ScoringSpec == ScoringInit /\ [][ScoringNext]_vars

\* --------------------------------- a clusterer driven directly, in f64
\* The scan of process_line, lines 82-85, with the score an f64
RECURSIVE ScanFrom64(_, _, _, _)
ScanFrom64(cs, pattern, max_dist, i) ==
    IF i > Len(cs) THEN 0
    ELSE IF Le64(distance64(cs[i].representative, pattern, max_dist), max_dist)
        THEN i
    ELSE ScanFrom64(cs, pattern, max_dist, i + 1)

\* Clusterer::process_line (clusterer.rs lines 76-115) with the score an f64
process_line64(cs, opts, line) ==
    UNION { LET i == ScanFrom64(cs, pattern, MaxDist64(opts.max_dist), 1)
            IN  IF i # 0
                   THEN { [cs EXCEPT ![i] = Cluster(@.representative, @.count + 1, m)] :
                            m \in merge(cs[i].pattern, pattern) }
                ELSE { Append(cs, Cluster(pattern, 1, pattern)) } :
              pattern \in { Tokenize(line) } }

\* records of up to MaxTokens tokens: "a ... a" and "a ... a b"
TokenLines ==
    { Join([i \in 1..n |-> IF i <= n - k THEN A ELSE B]) : n \in 1..MaxTokens, k \in {0, 1} }

\* Clusterer::new with max_dist 0.0 (only equal records share a cluster) or
\* 0.01 (the default of ClustererOptions)
Init64 ==
    /\ options \in { ClustererOptions(Frac(0, 1), 1), ClustererOptions(Frac(1, 100), 1) }
    /\ clusters = <<>>
    /\ calls = 0
    /\ result = <<>>
    /\ members = <<>>
    /\ HarnessOff
    /\ UnitOff

\* one call of process_line; members as in ProcessLine
ProcessLine64 ==
    /\ calls < MaxRecords
    /\ \E line \in TokenLines :
         /\ clusters' \in process_line64(clusters, options, line)
         /\ LET call == [line |-> line, at |-> calls + 1]
            IN  members' =
                  IF Len(clusters') > Len(members) THEN Append(members, <<call>>)
                  ELSE [i \in 1..Len(members) |->
                          IF clusters'[i] # clusters[i] THEN Append(members[i], call)
                          ELSE members[i]]
    /\ calls' = calls + 1
    /\ UNCHANGED <<options, result>>
    /\ UNCHANGED harness_vars
    /\ UNCHANGED unit_vars

Spec64 == Init64 /\ [][ProcessLine64]_vars

\* ------------------------------------------------ a StringPool used directly
\* StringPool::with_capacity (pool.rs lines 30-38) called with a capacity;
\* no PoolRef is out
PoolInit ==
    /\ string_pool \in { with_capacity(capacity) : capacity \in 0..MaxCapacity }
    /\ pool_ref = NoRef
    /\ pattern_a = <<>> /\ pattern_b = <<>> /\ threshold = Frac(0, 1)
    /\ returned = NoCall
    /\ ClustererOff
    /\ HarnessOff

\* A PoolRef borrows the pool mutably (pool.rs line 23): none can be taken
\* while one is out.
\* take_live (pool.rs lines 54-62) returning Some: live.pop(), Target::Dead
TakeLive ==
    /\ pool_ref = NoRef
    /\ string_pool.live # <<>>
    /\ pool_ref' = [line |-> take_live(string_pool), target |-> "Dead", from |-> "live",
                    stayed |-> FALSE]
    /\ string_pool' = [string_pool EXCEPT !.live = Front(@)]
    /\ UNCHANGED <<pattern_a, pattern_b, threshold, returned>>
    /\ UNCHANGED <<clusterer_vars, options>>
    /\ UNCHANGED harness_vars

\* take_dead (pool.rs lines 67-77) returning Some: dead.pop(), the String
\* cleared, Target::Live
TakeDead ==
    /\ pool_ref = NoRef
    /\ string_pool.dead # <<>>
    /\ pool_ref' = [line |-> take_dead(string_pool), target |-> "Live", from |-> "dead",
                    stayed |-> FALSE]
    /\ string_pool' = [string_pool EXCEPT !.dead = Front(@)]
    /\ UNCHANGED <<pattern_a, pattern_b, threshold, returned>>
    /\ UNCHANGED <<clusterer_vars, options>>
    /\ UNCHANGED harness_vars

\* DerefMut (pool.rs lines 113-117): the holder of the PoolRef writes a line
\* into its empty String, as read_line does
WriteLine ==
    /\ pool_ref # NoRef
    /\ pool_ref.line.text = <<>>
    /\ \E text \in FileLines : pool_ref' = [pool_ref EXCEPT !.line = Buffer(text, 0)]
    /\ UNCHANGED <<pattern_a, pattern_b, threshold, returned, string_pool>>
    /\ UNCHANGED <<clusterer_vars, options>>
    /\ UNCHANGED harness_vars

\* A stay_dead that leaves the target as it is.
StayDead_forgets ==
    /\ pool_ref # NoRef
    /\ ~pool_ref.stayed
    /\ pool_ref' = [pool_ref EXCEPT !.stayed = TRUE]
    /\ UNCHANGED <<pattern_a, pattern_b, threshold, returned, string_pool>>
    /\ UNCHANGED <<clusterer_vars, options>>
    /\ UNCHANGED harness_vars

\* PoolRef::stay_dead (pool.rs lines 89-91)
StayDead ==
    /\ pool_ref # NoRef
    /\ ~pool_ref.stayed
    /\ pool_ref' = [pool_ref EXCEPT !.target = "Dead", !.stayed = TRUE]
    /\ UNCHANGED <<pattern_a, pattern_b, threshold, returned, string_pool>>
    /\ UNCHANGED <<clusterer_vars, options>>
    /\ UNCHANGED harness_vars

\* Drop for PoolRef (pool.rs lines 94-103): the String is pushed onto the
\* Vec its target names
Drop ==
    /\ pool_ref # NoRef
    /\ string_pool' =
          IF pool_ref.target = "Dead"
             THEN [string_pool EXCEPT !.dead = Append(@, pool_ref.line)]
          ELSE [string_pool EXCEPT !.live = Append(@, pool_ref.line)]
    /\ pool_ref' = NoRef
    /\ UNCHANGED <<pattern_a, pattern_b, threshold, returned>>
    /\ UNCHANGED <<clusterer_vars, options>>
    /\ UNCHANGED harness_vars

PoolNext ==
    \/ TakeLive
    \/ TakeDead
    \/ WriteLine
    \/ StayDead
    \/ Drop

PoolSpec == PoolInit /\ [][PoolNext]_vars

\* ================================================================= claims
\* the threshold test of a record pattern against a cluster
WithinMaxDist(cluster, p) ==
    FracLe(distance(cluster.representative, p, options.max_dist), options.max_dist)

\* the full pairwise score 1 - matches / max_len, no early exit
FullDistance(a, b) ==
    LET max_len == Max(Len(a), Len(b))
        k == Cardinality({ i \in 1..Min(Len(a), Len(b)) : a[i] = b[i] })
    IN  IF max_len = 0 THEN Frac(1, 1) ELSE Frac(max_len - k, max_len)

\* the step is recorded in members as a call on this line (every ProcessLine
\* step on the line is)
IsCall(line) ==
    /\ calls' = calls + 1
    /\ \E i \in 1..Len(members') :
         Last(members'[i]) = [line |-> line, at |-> calls + 1]

\* C1: process_line is first-match-wins against representatives: the first
\* cluster, in list order, whose representative is within max_dist of the
\* record gets count + 1 and pattern = merge(pattern, p); every other
\* cluster is unchanged and none is appended.
C1_FirstMatchWins ==
    [][\A line \in Lines : (IsCall(line) /\ ProcessLine(line)) =>
         LET p == Tokenize(line)
         IN  \A i \in 1..Len(clusters) :
               (/\ WithinMaxDist(clusters[i], p)
                /\ \A j \in 1..(i - 1) : ~WithinMaxDist(clusters[j], p))
               => /\ Len(clusters') = Len(clusters)
                  /\ clusters'[i].count = clusters[i].count + 1
                  /\ clusters'[i].pattern \in merge(clusters[i].pattern, p)
                  /\ clusters'[i].representative = clusters[i].representative
                  /\ \A j \in 1..Len(clusters) : j # i => clusters'[j] = clusters[j]
      ]_vars

\* C1 witness: the last record that went into the first cluster was
\* processed when a second cluster existed whose representative is strictly
\* closer to it, and it is far (distance 1) from the first cluster's
\* pattern as it was built from the earlier members.
C1_Witness ==
    /\ Len(clusters) >= 2
    /\ Len(members[1]) >= 2
    /\ LET last == members[1][Len(members[1])]
           p == Tokenize(last.line)
       IN  /\ last.at > members[2][1].at
           /\ WithinMaxDist(clusters[2], p)
           /\ FracLt(FullDistance(clusters[2].representative, p),
                     FullDistance(clusters[1].representative, p))

\* C1 witness of the second case: a record within max_dist of the
\* representative went into a cluster whose running pattern shares no
\* element with it.
C1_WitnessFarFromPattern ==
    /\ Len(clusters) >= 1
    /\ Len(members[1]) = 3
    /\ LET p == Tokenize(members[1][3].line)
       IN  \E q \in merge(Tokenize(members[1][1].line), Tokenize(members[1][2].line)) :
             FracEq(FullDistance(q, p), Frac(1, 1))

\* C2: when no representative is within max_dist of the record, exactly one
\* cluster (p, 1, p) is appended and nothing else changes; process_line
\* never removes or reorders clusters, so the clusters stand in the order
\* in which their founding records were processed.
C2_AppendOnly ==
    /\ [][\A line \in Lines : (IsCall(line) /\ ProcessLine(line)) =>
            LET p == Tokenize(line)
            IN  /\ (\A i \in 1..Len(clusters) : ~WithinMaxDist(clusters[i], p))
                     => clusters' = Append(clusters, Cluster(p, 1, p))
                /\ Len(clusters') >= Len(clusters)
                /\ \A i \in 1..Len(clusters) :
                     clusters'[i].representative = clusters[i].representative
         ]_vars
    /\ [](/\ Len(members) = Len(clusters)
          /\ \A i \in 1..Len(clusters) :
               /\ clusters[i].representative = Tokenize(members[i][1].line)
               /\ \A j \in 1..Len(clusters) :
                    i < j => members[i][1].at < members[j][1].at)

\* C2 witness: the second cluster was appended as (p, 1, p) by a record far
\* from the first representative, and the first cluster, still first, took
\* a record after that
C2_Witness ==
    /\ Len(clusters) = 2
    /\ Len(members[1]) = 2
    /\ members[1][2].at > members[2][1].at
    /\ ~WithinMaxDist(clusters[1], Tokenize(members[2][1].line))
    /\ LET p == Tokenize(members[2][1].line)
       IN  clusters[2] = Cluster(p, 1, p)

\* the indices of the clusters with at least min_members members
Kept(cs, min_members) == { i \in 1..Len(cs) : cs[i].count >= min_members }
\* the k-th of them
KeptAt(cs, min_members, k) ==
    CHOOSE i \in Kept(cs, min_members) :
        Cardinality({ j \in Kept(cs, min_members) : j <= i }) = k

\* q is the clusters of cs at increasing positions
RECURSIVE IsSubList(_, _)
IsSubList(q, cs) ==
    IF q = <<>> THEN TRUE
    ELSE IF cs = <<>> THEN FALSE
    ELSE IF Head(q) = Head(cs) THEN IsSubList(Tail(q), Tail(cs))
    ELSE IsSubList(q, Tail(cs))

\* C10: take_result returns exactly the clusters with count >= min_members,
\* in list order and unaltered; with min_members = 1 that is the whole
\* list; the result for a larger min_members is a sub-list of the result
\* for a smaller one.
C10_TakeResultFilters ==
    /\ [][TakeResult =>
            /\ Len(result') = Cardinality(Kept(clusters, options.min_members))
            /\ \A k \in 1..Len(result') :
                 result'[k] = clusters[KeptAt(clusters, options.min_members, k)]
            /\ options.min_members = 1 => result' = clusters
         ]_vars
    /\ [](\A m1, m2 \in 1..(MaxMinMembers + 1) :
            m1 <= m2 =>
              IsSubList(take_result(clusters, ClustererOptions(options.max_dist, m2)),
                        take_result(clusters, ClustererOptions(options.max_dist, m1))))

\* C10 witness: of three records, two went into the one cluster returned
\* and the third into a cluster that was filtered out
C10_Witness ==
    /\ options.min_members = 2
    /\ calls = 3
    /\ clusters = <<>>
    /\ Len(result) = 1
    /\ result[1].count = 2

Range(q) == { q[i] : i \in 1..Len(q) }
NoDuplicates(q) == \A i, j \in 1..Len(q) : i # j => q[i] # q[j]

\* every cluster the harness holds: in a worker, in the channel, in total
HarnessClusters ==
    UNION { Range(worker_clusters[w]) : w \in Threads }
      \cup UNION { Range(rx[i]) : i \in 1..Len(rx) }
      \cup Range(total)

\* C3: a cluster's representative never changes after creation: it is the
\* token sequence of the record that created it, through every process_line
\* call, through the send and through every step of the reduction.
C3_RepresentativeFixed ==
    /\ [](main_pc = "off" =>
            \A i \in 1..Len(clusters) :
              clusters[i].representative = Tokenize(members[i][1].line))
    /\ [](\A c \in HarnessClusters :
            \E k \in 1..Len(file) : c.representative = Tokenize(file[k]))
    /\ [][/\ \A line \in Lines : (IsCall(line) /\ ProcessLine(line)) =>
               \A i \in 1..Len(clusters) :
                 clusters'[i].representative = clusters[i].representative
          /\ \A w \in Threads : Process(w) =>
               /\ \A i \in 1..Len(worker_clusters[w]) :
                    worker_clusters'[w][i].representative
                      = worker_clusters[w][i].representative
               /\ Len(worker_clusters'[w]) > Len(worker_clusters[w]) =>
                    Last(worker_clusters'[w]).representative
                      = Tokenize(file[Last(proc_log'[w])])
          /\ \A w \in Threads : Send(w) =>
               \A c \in Range(Last(rx')) : c \in Range(worker_clusters[w])
          /\ Recv =>
               /\ Len(total') >= Len(total)
               /\ \A j \in 1..Len(total) :
                    total'[j].representative = total[j].representative
               /\ \A j \in (Len(total) + 1)..Len(total') : total'[j] \in Range(Head(rx))
         ]_vars

\* C3 witness: run has returned one cluster into which the reduction merged
\* the clusters of two workers; its pattern has moved away from its
\* representative, which is still the tokens of a line of the file
C3_Witness ==
    /\ main_pc = "done"
    /\ num_threads = 2
    /\ options.min_members = 1
    /\ proc_log[1] # <<>> /\ proc_log[2] # <<>>
    /\ Len(total) = 1
    /\ total[1].pattern # total[1].representative
    /\ \E k \in 1..Len(file) : total[1].representative = Tokenize(file[k])

\* the number of clusters of cs with this pattern and this count
Occurrences(cs, pattern, count) ==
    Cardinality({ i \in 1..Len(cs) : cs[i].pattern = pattern /\ cs[i].count = count })

\* the same (pattern, count) pairs, each as many times
SameMultiset(cs1, cs2) ==
    /\ Len(cs1) = Len(cs2)
    /\ \A i \in 1..Len(cs1) :
         Occurrences(cs1, cs1[i].pattern, cs1[i].count)
           = Occurrences(cs2, cs1[i].pattern, cs1[i].count)

\* C4: what run returns with more than one worker is, as a multiset of
\* (pattern, count) pairs, what main_single_core returns on the same file
\* with the same options.
C4_ParallelEqualsSingle ==
    (main_pc = "done" /\ num_threads > 1) =>
       \E r \in main_single_core(options, file) : SameMultiset(total, r)

\* C4: a run in which run and main_single_core part: two workers took one
\* line each of a file of two equal lines; with min_members = 2 each worker
\* filtered its cluster of one member out before sending, and run returned
\* nothing, where the single core returns one cluster of two members.
C4_FilteredBeforeReduction ==
    /\ main_pc = "done"
    /\ num_threads = 2
    /\ options.min_members = 2
    /\ Len(file) = 2 /\ file[1] = file[2]
    /\ Len(proc_log[1]) = 1 /\ Len(proc_log[2]) = 1
    /\ total = <<>>
    /\ \A r \in main_single_core(options, file) : Len(r) = 1 /\ r[1].count = 2

\* the threshold test of the reduction
RepresentativesWithin(a, b) ==
    FracLe(distance(a.representative, b.representative, options.max_dist),
           options.max_dist)

\* C5: when a worker cluster a matches a cluster b of total, b.count becomes
\* b.count + a.count and b.pattern becomes merge(a.pattern, b.pattern).
\* (Stated of the first cluster of the list received.)
C5_CountsSummed ==
    [][(Recv /\ Head(rx) # <<>>) =>
         LET a == Head(rx)[1]
         IN  \A j \in 1..Len(total) :
               (/\ RepresentativesWithin(a, total[j])
                /\ \A i \in 1..(j - 1) : ~RepresentativesWithin(a, total[i]))
               => /\ total'[j].count = total[j].count + a.count
                  /\ total'[j].pattern \in merge(a.pattern, total[j].pattern)
      ]_vars

\* C5: a run in which a count is lost: of three equal lines one worker took
\* one and the other two; the reduction matched the second list's cluster of
\* two members and added 1.
C5_CountLost ==
    /\ main_pc = "done"
    /\ num_threads = 2
    /\ options.min_members = 1
    /\ Len(file) = 3 /\ file[1] = file[2] /\ file[2] = file[3]
    /\ Len(proc_log[1]) + Len(proc_log[2]) = 3
    /\ Len(total) = 1
    /\ total[1].count = 2

\* C6: the reduction folds every cluster of the list received into total:
\* after the step each of them has a cluster of total within max_dist of
\* its representative (the one it was merged into, or itself).
C6_NoClusterDropped ==
    [][Recv =>
         \A k \in 1..Len(Head(rx)) :
           \E j \in 1..Len(total') : RepresentativesWithin(Head(rx)[k], total'[j])
      ]_vars

\* C6: a run in which a cluster is dropped: run has returned, every line
\* was processed and no worker filtered anything out, and yet a line of the
\* file has no cluster of total within max_dist of it.
C6_ClusterDropped ==
    /\ main_pc = "done"
    /\ options.min_members = 1
    /\ UNION { Range(proc_log[w]) : w \in Threads } = 1..Len(file)
    /\ \E k \in 1..Len(file) :
         \A j \in 1..Len(total) :
           ~FracLe(distance(Tokenize(file[k]), total[j].representative, options.max_dist),
                   options.max_dist)

\* C7: a worker passes the records to process_line in the order in which it
\* read them.
C7_ProcessedInReadOrder ==
    \A w \in Threads :
      \A i, j \in 1..Len(proc_log[w]) : i < j => proc_log[w][i] < proc_log[w][j]

\* C7: a worker that read the first two lines under one hold of the lock
\* passed the second to process_line before the first.
C7_LastReadFirst ==
    \E w \in Threads :
      /\ Len(read_log[w]) >= 2 /\ Len(proc_log[w]) >= 2
      /\ read_log[w][1] = 1 /\ read_log[w][2] = 2
      /\ proc_log[w][1] = 2 /\ proc_log[w][2] = 1

\* C8: run terminates: every worker reaches the end of the input with
\* nothing live, sends and exits; a worker about to send finds room in the
\* channel; the coordinator receives only after all workers are done and
\* returns.
C8_Terminates ==
    <>(/\ main_pc = "done"
       /\ AllDone
       /\ rx = <<>>
       /\ pos > Len(file)
       /\ \A w \in Threads : lines[w].live = <<>>)

\* C8 witness: run has returned after two workers shared a file of
\* MaxFileLines lines
C8_Witness ==
    /\ main_pc = "done"
    /\ num_threads = 2
    /\ Len(file) = MaxFileLines
    /\ read_log[1] # <<>> /\ read_log[2] # <<>>

\* C9: every line is read by exactly one worker and passed to that worker's
\* clusterer exactly once; what a worker has read and not processed is in
\* its live buffers, and it exits with none; the lines read during one hold
\* of the lock are consecutive lines of the file.
C9_EachLineOnce ==
    /\ \A k \in 1..(pos - 1) :
         Cardinality({ w \in Threads : k \in Range(read_log[w]) }) = 1
    /\ \A w \in Threads :
         /\ NoDuplicates(read_log[w])
         /\ Range(read_log[w]) \subseteq 1..(pos - 1)
         /\ NoDuplicates(proc_log[w])
         /\ Range(proc_log[w]) \subseteq Range(read_log[w])
         /\ Range(read_log[w]) \ Range(proc_log[w])
              = { lines[w].live[i].src : i \in 1..Len(lines[w].live) }
         /\ \A i \in 1..Len(lines[w].live) :
              lines[w].live[i].text = file[lines[w].live[i].src]
         /\ pc[w] \in {"send", "done"} => Range(proc_log[w]) = Range(read_log[w])
    /\ main_pc = "done" =>
         UNION { Range(proc_log[w]) : w \in Threads } = 1..Len(file)
    /\ \A i \in 1..(Len(held_run) - 1) : held_run[i + 1] = held_run[i] + 1

\* C9 witness: run has returned; worker 1 read and processed the first and
\* the third line, worker 2 the second
C9_Witness ==
    /\ main_pc = "done"
    /\ num_threads = 2
    /\ read_log[1] = <<1, 3>>
    /\ read_log[2] = <<2>>
    /\ Range(proc_log[1]) = {1, 3}
    /\ proc_log[2] = <<2>>

\* C11: distance(p, p, d) is exactly 0.0 for every Pattern p and every
\* threshold d >= 0.
C11_DistanceToSelfIsZero ==
    (returned.fn = "distance" /\ pattern_a = pattern_b)
       => returned.value.num = 0

\* C11: a call that returned 0.5 for a Pattern of two elements and itself:
\* with max_dist 0.75 the loop returns after the first pair
C11_EarlyExitToSelf ==
    /\ returned.fn = "distance"
    /\ pattern_a = pattern_b
    /\ Len(pattern_a) = 2
    /\ threshold = Frac(3, 4)
    /\ FracEq(returned.value, Frac(1, 2))

\* C12: merge(p, p) = p for every Pattern p, Placeholders and repeated
\* tokens included; the output has len(p) elements.
C12_MergeWithSelf ==
    (returned.fn = "merge" /\ pattern_a = pattern_b)
       => /\ returned.value = pattern_a
          /\ Len(returned.value) = Len(pattern_a)

\* C12 witness: a Pattern with a repeated token and a Placeholder was
\* merged with itself
C12_Witness ==
    /\ returned.fn = "merge"
    /\ pattern_a = pattern_b
    /\ pattern_a = <<Text(A), Placeholder, Text(A)>>
    /\ returned.value = pattern_a

\* two Placeholders side by side
AdjacentPlaceholders(q) ==
    \E i \in 1..(Len(q) - 1) : q[i] = Placeholder /\ q[i + 1] = Placeholder

\* C13: the output of merge(a, b) never holds two adjacent Placeholders,
\* whatever a and b (running patterns with Placeholders included).  Stated
\* of the inputs that hold none themselves, as every pattern does that
\* process_line builds.
C13_NoAdjacentPlaceholders ==
    (/\ returned.fn = "merge"
     /\ ~AdjacentPlaceholders(pattern_a)
     /\ ~AdjacentPlaceholders(pattern_b))
       => ~AdjacentPlaceholders(returned.value)

\* C13: two running patterns that start with a Placeholder and go on with
\* different tokens, neither with adjacent Placeholders, merged into
\* [Placeholder, Placeholder]
C13_AlignedPlaceholderThenGap ==
    /\ returned.fn = "merge"
    /\ pattern_a = <<Placeholder, Text(A)>>
    /\ pattern_b = <<Placeholder, Text(B)>>
    /\ returned.value = <<Placeholder, Placeholder>>

\* Every way to walk a and b in step: an aligned pair of equal elements is
\* kept, a position of either that is not aligned belongs to a run, and a
\* run is written as one Placeholder.  aligned counts the pairs.
Unaligned(r) ==
    IF r.in_run THEN r
    ELSE [out |-> Append(r.out, Placeholder), aligned |-> r.aligned, in_run |-> TRUE]

RECURSIVE Alignments(_, _, _, _)
Alignments(a, b, x, y) ==
    IF x = 0 /\ y = 0 THEN { [out |-> <<>>, aligned |-> 0, in_run |-> FALSE] }
    ELSE (IF x > 0 /\ y > 0 /\ a[x] = b[y]
             THEN { [out |-> Append(r.out, a[x]), aligned |-> r.aligned + 1,
                     in_run |-> FALSE] : r \in Alignments(a, b, x - 1, y - 1) }
          ELSE {})
         \cup (IF x > 0 THEN { Unaligned(r) : r \in Alignments(a, b, x - 1, y) } ELSE {})
         \cup (IF y > 0 THEN { Unaligned(r) : r \in Alignments(a, b, x, y - 1) } ELSE {})

\* the outputs of the walks with the most aligned pairs
GapCollapsed(a, b) ==
    LET all == Alignments(a, b, Len(a), Len(b))
        most == CHOOSE n \in { r.aligned : r \in all } :
                  \A r \in all : r.aligned <= n
    IN  { r.out : r \in { r2 \in all : r2.aligned = most } }

\* length of the longest common subsequence of a[1..x] and b[1..y]
RECURSIVE LcsLen(_, _, _, _)
LcsLen(a, b, x, y) ==
    IF x = 0 \/ y = 0 THEN 0
    ELSE IF a[x] = b[y] THEN LcsLen(a, b, x - 1, y - 1) + 1
    ELSE Max(LcsLen(a, b, x - 1, y), LcsLen(a, b, x, y - 1))

\* q is a subsequence of p
RECURSIVE IsSubsequence(_, _)
IsSubsequence(q, p) ==
    IF q = <<>> THEN TRUE
    ELSE IF p = <<>> THEN FALSE
    ELSE IF Head(q) = Head(p) THEN IsSubsequence(Tail(q), Tail(p))
    ELSE IsSubsequence(q, Tail(p))

TextTokens(q) == SelectSeq(q, LAMBDA e : e.kind = "Text")

\* C14, first half: the Text tokens of the output are a longest common
\* subsequence of the Text tokens of a and of b
TextIsLcs ==
    returned.fn = "merge" =>
       LET t == TextTokens(returned.value)
           ta == TextTokens(pattern_a)
           tb == TextTokens(pattern_b)
       IN  /\ IsSubsequence(t, ta)
           /\ IsSubsequence(t, tb)
           /\ Len(t) = LcsLen(ta, tb, Len(ta), Len(tb))

\* C14, second half: the output is a gap-collapsed alignment
IsGapCollapsed ==
    returned.fn = "merge" => returned.value \in GapCollapsed(pattern_a, pattern_b)

\* C14, the examples
MergeExamples ==
    returned.fn = "merge" =>
       /\ (pattern_a = TextPattern(<<A, C, B>>) /\ pattern_b = TextPattern(<<A, B>>))
             => returned.value = <<Text(A), Placeholder, Text(B)>>
       /\ (pattern_a = TextPattern(<<A, C, B>>) /\ pattern_b = TextPattern(<<A, B, D>>))
             => returned.value = <<Text(A), Placeholder, Text(B), Placeholder>>
       /\ (pattern_a = TextPattern(<<A, B, D, E, F>>)
            /\ pattern_b = TextPattern(<<A, B, C, E, F>>))
             => returned.value = <<Text(A), Text(B), Placeholder, Text(E), Text(F)>>
       /\ (pattern_a = TextPattern(<<A, B, C, D>>) /\ pattern_b = TextPattern(<<A, D>>))
             => returned.value = <<Text(A), Placeholder, Text(D)>>

\* C14: merge(a, b) is the gap-collapsed global alignment of a and b: the
\* Text tokens of the output are a longest common subsequence of a and b,
\* each maximal run of unaligned positions is one Placeholder, and the four
\* examples come out as stated.
C14_GapCollapsedAlignment ==
    /\ TextIsLcs
    /\ IsGapCollapsed
    /\ MergeExamples

\* C14: two patterns with the common token a, merged into a pattern
\* without any Text token: the two Placeholders of each were aligned
C14_CommonTokenLost ==
    /\ returned.fn = "merge"
    /\ pattern_a = <<Placeholder, Placeholder, Text(A)>>
    /\ pattern_b = <<Text(A), Placeholder, Placeholder>>
    /\ TextTokens(returned.value) = <<>>

\* C15: the distance of two empty Patterns is 0.0 for every max_dist (so
\* that two empty records count as an exact match).
C15_EmptyPatternsAtDistanceZero ==
    (returned.fn = "distance" /\ pattern_a = <<>> /\ pattern_b = <<>>)
       => /\ returned.value.num = 0
          /\ FracLe(returned.value, threshold)

\* C15: distance returned 1.0 for two empty Patterns, above the max_dist
\* 0.5 it was given
C15_EmptyPatternsAtDistanceOne ==
    /\ returned.fn = "distance"
    /\ pattern_a = <<>> /\ pattern_b = <<>>
    /\ threshold = Frac(1, 2)
    /\ FracEq(returned.value, Frac(1, 1))
    /\ ~FracLe(returned.value, threshold)

\* C16: distance(a, b, d) = distance(b, a, d) for all Patterns a and b, of
\* equal length or not, and every d, the early exit included.
C16_DistanceSymmetric ==
    returned.fn = "distance"
       => returned.value = distance(pattern_b, pattern_a, threshold)

\* C16 witness: two Patterns of different lengths for which distance returned early, with 2/3, before their full score 1/3
C16_Witness ==
    /\ returned.fn = "distance"
    /\ Len(pattern_a) = 2 /\ Len(pattern_b) = 3
    /\ FracEq(returned.value, Frac(2, 3))
    /\ FracLt(FullDistance(pattern_a, pattern_b), returned.value)

\* the calls that went into the clusters of the list, and whether none of
\* them was within max_dist of a record processed before it
CallsInList == UNION { Range(members[i]) : i \in 1..Len(members) }
AllRecordsApart ==
    \A c1, c2 \in CallsInList :
       c1.at < c2.at =>
          ~FracLe(distance(Tokenize(c1.line), Tokenize(c2.line), options.max_dist),
                  options.max_dist)

\* C17: when no record is within max_dist of an earlier one, every record
\* founds its own cluster (p, 1, p); in general every cluster with count 1
\* has pattern = representative, and count is 1 + the number of records
\* merged into the cluster.
C17_CountsMembers ==
    /\ AllRecordsApart =>
          \A i \in 1..Len(clusters) :
             /\ Len(members[i]) = 1
             /\ clusters[i] = Cluster(Tokenize(members[i][1].line), 1,
                                       Tokenize(members[i][1].line))
    /\ \A i \in 1..Len(clusters) :
          /\ clusters[i].count = 1 => clusters[i].pattern = clusters[i].representative
          /\ clusters[i].count = 1 + (Len(members[i]) - 1)

\* C17 witness: with max_dist 0.01 three records, two of them one token
\* apart, founded three clusters
C17_Witness ==
    /\ options.max_dist = Frac(1, 100)
    /\ Len(clusters) = 3
    /\ AllRecordsApart
    /\ \E i, j \in 1..3 :
         FracEq(FullDistance(clusters[i].representative, clusters[j].representative),
                Frac(1, 3))
    /\ \A i \in 1..3 : clusters[i].count = 1

\* the workers that have sent their result and returned
Finished == { w \in Threads : pc[w] = "done" }

\* C18: no partial result is surfaced.  While the workers run the
\* coordinator has received nothing: total is empty and the channel holds
\* one message per finished worker.  The coordinator receives only when every
\* worker has sent and returned, it folds each message it takes off the
\* channel into total, and run returns only when the channel is empty, all
\* the num_threads messages taken.  A worker sends once, from its
\* take_result, when it has left its loop; after that it neither sends nor
\* calls process_line again.
C18_NoPartialResult ==
    /\ [](/\ main_pc = "scope" => total = <<>> /\ Len(rx) = Cardinality(Finished)
          /\ main_pc \in {"recv", "done"} => AllDone
          /\ main_pc = "done" => rx = <<>>)
    /\ [][/\ (main_pc = "scope" /\ main_pc' = "recv") => Len(rx) = num_threads
          /\ rx' # rx =>
                \/ /\ main_pc = "recv" /\ AllDone
                   /\ rx # <<>> /\ rx' = Tail(rx)
                   /\ total' \in merge_thread_results(total, Head(rx), options)
                \/ /\ main_pc = "scope" /\ total' = total
                   /\ \E w \in Threads :
                        /\ pc[w] = "send" /\ pc'[w] = "done"
                        /\ rx' = Append(rx, take_result(worker_clusters[w], options))
                        /\ \A v \in Threads \ {w} : pc'[v] = pc[v]
          /\ total' # total => rx' # rx
          /\ \A w \in Threads :
                /\ pc[w] = "done" => pc'[w] = "done" /\ proc_log'[w] = proc_log[w]
                /\ pc'[w] = "done" /\ pc[w] # "done" => rx' # rx
                /\ proc_log'[w] # proc_log[w] => pc[w] = "process"
                /\ pc[w] = "send" => pc'[w] \in {"send", "done"}
          /\ (main_pc' = "done" /\ main_pc # "done") => rx = <<>> /\ AllDone]_vars

\* C18 witness: run has returned a non-empty total after two workers each
\* processed lines and sent a non-empty list
C18_Witness ==
    /\ main_pc = "done"
    /\ num_threads = 2
    /\ proc_log[1] # <<>> /\ proc_log[2] # <<>>
    /\ Len(total) = 2
    /\ rx = <<>>

\* the PoolRefs that are out: at most one, as a PoolRef borrows the pool
Outstanding == IF pool_ref = NoRef THEN 0 ELSE 1

\* C19: a StringPool conserves its buffers.  After any sequence of
\* take_dead, take_live, stay_dead and drops, len(live) + len(dead) + the
\* number of PoolRefs that are out is the capacity the pool was made with,
\* and live never holds more than that.  When a PoolRef is dropped its
\* String goes onto live if it came from take_dead and stay_dead was not
\* called, onto dead if it came from take_dead and stay_dead was called or
\* if it came from take_live; the other Vec is left alone.
C19_BuffersConserved ==
    /\ [](/\ Len(string_pool.live) + Len(string_pool.dead) + Outstanding
               = string_pool.capacity
          /\ Len(string_pool.live) <= string_pool.capacity)
    /\ [][(pool_ref # NoRef /\ pool_ref' = NoRef) =>
            IF pool_ref.from = "dead" /\ ~pool_ref.stayed
               THEN /\ string_pool'.live = Append(string_pool.live, pool_ref.line)
                    /\ string_pool'.dead = string_pool.dead
            ELSE /\ string_pool'.dead = Append(string_pool.dead, pool_ref.line)
                 /\ string_pool'.live = string_pool.live]_vars

\* C19 witness: a pool of capacity 3 with one String live, one dead, and a
\* PoolRef out that came from take_dead and had stay_dead called on it
C19_Witness ==
    /\ string_pool.capacity = 3
    /\ Len(string_pool.live) = 1
    /\ Len(string_pool.dead) = 1
    /\ pool_ref.from = "dead"
    /\ pool_ref.stayed

\* worker w is in fill, holds the lock, has a dead String to take, and the
\* file is at its end
FillAtEof(w) ==
    /\ pc[w] \in {"fill", "steal_fill"}
    /\ mutex = w
    /\ lines[w].dead # <<>>
    /\ pos > Len(file)

\* the file positions of the Strings of a Vec of the pool
Sources(q) == { q[i].src : i \in 1..Len(q) }

\* C20: when a fill attempt hits the end of the input, the String taken for
\* it goes back to dead, empty, live is left as it was, and fill stops.  At
\* every point the live Strings of a worker are exactly the lines it has
\* read and not yet passed to process_line, each once and each holding the
\* text of its line, which is not empty; and what a worker passes to
\* process_line is the text of a line it read and had not passed before.
C20_LiveIsReadNotProcessed ==
    /\ [](\A w \in Threads :
            /\ Len(lines[w].live) + Len(lines[w].dead) = read_chunk_size
            /\ Sources(lines[w].live) = Range(read_log[w]) \ Range(proc_log[w])
            /\ Cardinality(Sources(lines[w].live)) = Len(lines[w].live)
            /\ \A i \in 1..Len(lines[w].live) :
                 /\ lines[w].live[i].src \in 1..Len(file)
                 /\ lines[w].live[i].text = file[lines[w].live[i].src]
                 /\ lines[w].live[i].text # <<>>)
    /\ [][\A w \in Threads :
            /\ (FillAtEof(w) /\ <<pc[w], lines[w]>>' # <<pc[w], lines[w]>>) =>
                  /\ lines'[w].live = lines[w].live
                  /\ Front(lines'[w].dead) = Front(lines[w].dead)
                  /\ Last(lines'[w].dead) = EmptyString
                  /\ pc'[w] \notin {"fill", "steal_fill"}
                  /\ read_log'[w] = read_log[w]
            /\ proc_log'[w] # proc_log[w] =>
                  /\ lines[w].live # <<>>
                  /\ proc_log'[w] = Append(proc_log[w], take_live(lines[w]).src)
                  /\ take_live(lines[w]).src \in Range(read_log[w]) \ Range(proc_log[w])
                  /\ take_live(lines[w]).text = file[take_live(lines[w]).src]
                  /\ take_live(lines[w]).text # <<>>
                  /\ worker_clusters'[w] \in
                        process_line(worker_clusters[w], options, take_live(lines[w]).text)]_vars

\* C20 witness: a worker with two Strings has read and processed two lines,
\* met the end of the file in its next fill and left: the String taken at the
\* end of the file is back on dead, empty, above one that still holds the
\* text of a processed line
C20_Witness ==
    \E w \in Threads :
      /\ pc[w] = "done"
      /\ pos > Len(file)
      /\ Len(proc_log[w]) = 2
      /\ lines[w].live = <<>>
      /\ Len(lines[w].dead) = 2
      /\ lines[w].dead[1].text # <<>>
      /\ lines[w].dead[2] = EmptyString

\* the running distance after the first i pairs: 1 - total
RunningDistance(a, b, i) ==
    Frac(Max(Len(a), Len(b)) - Cardinality({ j \in 1..i : a[j] = b[j] }),
         Max(Len(a), Len(b)))

\* the test of scoring.rs line 10 succeeds after some pair
ExitsEarly(a, b, max_dist) ==
    \E i \in 1..Min(Len(a), Len(b)) : FracLt(RunningDistance(a, b, i), max_dist)

RECURSIVE Total64(_, _, _)
Total64(a, b, i) ==
    IF i = 0 THEN Zero64
    ELSE IF a[i] = b[i]
       THEN Add64(Total64(a, b, i - 1), Quotient(1, Max(Len(a), Len(b))))
    ELSE Total64(a, b, i - 1)

\* the test of scoring.rs line 10 succeeds after some pair, in f64
ExitsEarly64(a, b, max_dist) ==
    \E i \in 1..Min(Len(a), Len(b)) : Lt64(OneMinus(Total64(a, b, i)), max_dist)

\* the number of positions of the shorter Pattern at which the two agree
Matches(a, b) == Cardinality({ i \in 1..Min(Len(a), Len(b)) : a[i] = b[i] })

\* C22: for Patterns not both empty, distance(a, b, d) lies in [0, 1];
\* without an early exit it is 1 - k / max(len(a), len(b)), k the number of
\* positions of the shorter Pattern at which the two agree; it is at least
\* 1 - min(len) / max(len); empty against non-empty gives 1.0.  The
\* quotients and differences are the f64 ones.
C22_OneMinusMatchesOverMaxLen ==
    (returned.fn = "distance" /\ (pattern_a # <<>> \/ pattern_b # <<>>)) =>
       LET max_len == Max(Len(pattern_a), Len(pattern_b))
           min_len == Min(Len(pattern_a), Len(pattern_b))
       IN  /\ Le64(Zero64, returned.value)
           /\ Le64(returned.value, One64)
           /\ ~ExitsEarly64(pattern_a, pattern_b, MaxDist64(threshold)) =>
                 returned.value = OneMinus(Quotient(Matches(pattern_a, pattern_b), max_len))
           /\ Le64(OneMinus(Quotient(min_len, max_len)), returned.value)
           /\ min_len = 0 => returned.value = One64

\* C22: distance returned -2^-52 for two equal Patterns of nine tokens, with
\* max_dist 0.01: nine times 1/9 add up to 1 + 2^-52 in f64
C22_NegativeDistance ==
    /\ returned.fn = "distance"
    /\ pattern_a = TokenRun(9, 9)
    /\ pattern_b = pattern_a
    /\ threshold = Frac(1, 100)
    /\ returned.value = [neg |-> TRUE, hi |-> 0, lo |-> 2^7]

\* C23: with the scores 10, -1, 0, 0 no Align step of an optimal global
\* alignment pairs unequal elements: a cell of the matrix never owes its
\* score to the diagonal step of a pair that differs.  So what merge emits
\* at an Align step, taken from self, equals the element of other as well,
\* and the Text tokens of the output are, in order, tokens of both inputs.
C23_AlignStepsPairEqual ==
    returned.fn = "merge" =>
       /\ \A M \in { AlignmentMatrix(pattern_a, pattern_b, Len(pattern_a)) } :
             \A x \in 1..Len(pattern_a), y \in 1..Len(pattern_b) :
                pattern_a[x] # pattern_b[y] => M[x + 1][y + 1] # M[x][y] + AlignScore
       /\ IsSubsequence(TextTokens(returned.value), pattern_a)
       /\ IsSubsequence(TextTokens(returned.value), pattern_b)

\* C23 witness: the merge of two Patterns of three Text tokens that differ
\* in the middle one only returned the first, a Placeholder and the last
C23_Witness ==
    /\ returned.fn = "merge"
    /\ pattern_a = TextPattern(<<A, A, B>>)
    /\ pattern_b = TextPattern(<<A, B, B>>)
    /\ returned.value = <<Text(A), Placeholder, Text(B)>>

\* C24: merge(a, b) and merge(b, a) have the same length, Placeholders at
\* the same positions and equal Text tokens at the others, whichever optimal
\* alignment each of the two calls uses.
C24_MergeCommutes ==
    returned.fn = "merge" =>
       \A m \in merge(pattern_b, pattern_a) :
          /\ Len(m) = Len(returned.value)
          /\ \A i \in 1..Len(m) : m[i] = returned.value[i]

\* C24: merge([a, b], [b, a]) returned [Placeholder, a, Placeholder], the
\* alignment that pairs the first element of self with the second of other;
\* the same alignment makes merge([b, a], [a, b]) return
\* [Placeholder, b, Placeholder]
C24_SurvivorDependsOnOrder ==
    /\ returned.fn = "merge"
    /\ pattern_a = TextPattern(<<A, B>>)
    /\ pattern_b = TextPattern(<<B, A>>)
    /\ returned.value = <<Placeholder, Text(A), Placeholder>>
    /\ <<Placeholder, Text(B), Placeholder>> \in merge(pattern_b, pattern_a)
    /\ merge(pattern_a, pattern_b) = { <<Placeholder, Text(A), Placeholder>>,
                                       <<Placeholder, Text(B), Placeholder>> }

\* C25: between two blocking lock acquisitions a worker makes at most
\* LOCK_STEAL_ATTEMPTS try_lock attempts, and it is at the blocking lock of
\* line 77 only with no live String left: it never waits for the lock while
\* it holds lines it has not processed.
C25_BlocksOnlyWhenExhausted ==
    \A w \in Threads :
       /\ attempt[w] < LOCK_STEAL_ATTEMPTS
       /\ pc[w] = "lock" => lines[w].live = <<>>

\* C25: a worker with a pool of five Strings read five lines, processed one
\* line before each of its four try_locks and is back at the blocking lock
\* with the fifth line live
C25_BlocksWithLinesLeft ==
    \E w \in Threads :
       /\ read_chunk_size = 5
       /\ pc[w] = "lock"
       /\ Len(read_log[w]) = 5
       /\ Len(proc_log[w]) = LOCK_STEAL_ATTEMPTS
       /\ Len(lines[w].live) = 1

\* C26: take_result drains the clusterer: after the call the cluster list
\* is empty, the clusters that were filtered out included, and the options
\* are as before; a take_result on the drained clusterer returns nothing;
\* a process_line on it leaves a list of one cluster of count 1 whose
\* pattern and representative are the record.
C26_TakeResultDrains ==
    [][/\ TakeResult =>
            /\ clusters' = <<>>
            /\ options' = options
            /\ take_result(clusters', options') = <<>>
            /\ clusters = <<>> => result' = <<>>
       /\ \A line \in Lines :
            (clusters = <<>> /\ IsCall(line) /\ ProcessLine(line)) =>
                clusters' = <<Cluster(Tokenize(line), 1, Tokenize(line))>>
      ]_vars

\* C26 witness: with min_members 2, two records went into two clusters of
\* count 1, take_result returned nothing and left nothing, and the third
\* record started a new list
C26_Witness ==
    /\ options.min_members = 2
    /\ calls = 3
    /\ result = <<>>
    /\ Len(clusters) = 1
    /\ clusters[1].count = 1
    /\ Len(members[1]) = 1
    /\ members[1][1].at = 3

\* the counts of the clusters of a list added up
RECURSIVE SumOfCounts(_)
SumOfCounts(cs) == IF cs = <<>> THEN 0 ELSE Head(cs).count + SumOfCounts(Tail(cs))

\* C27: the counts of a clusterer's clusters add up to the number of records
\* processed since the list was last taken, n after n calls on a new
\* clusterer; every count is at least 1; each process_line raises the sum by
\* exactly one, by adding 1 to the count of one cluster or by appending a
\* cluster of count 1.
C27_CountsSumToRecords ==
    /\ [](/\ SumOfCounts(clusters) = Cardinality(CallsInList)
          /\ Cardinality(CallsInList) = calls => SumOfCounts(clusters) = calls
          /\ \A i \in 1..Len(clusters) : clusters[i].count >= 1)
    /\ [][\A line \in Lines :
            (IsCall(line) /\ ProcessLine(line)) =>
               /\ SumOfCounts(clusters') = SumOfCounts(clusters) + 1
               /\ \/ /\ Len(clusters') = Len(clusters) + 1
                     /\ Last(clusters').count = 1
                     /\ \A i \in 1..Len(clusters) : clusters'[i] = clusters[i]
                  \/ /\ Len(clusters') = Len(clusters)
                     /\ \E i \in 1..Len(clusters) :
                          /\ clusters'[i].count = clusters[i].count + 1
                          /\ \A j \in 1..Len(clusters) \ {i} : clusters'[j] = clusters[j]
      ]_vars

\* C27 witness: MaxRecords records on a new clusterer, in two clusters of
\* which the first took all but one
C27_Witness ==
    /\ calls = MaxRecords
    /\ Cardinality(CallsInList) = calls
    /\ Len(clusters) = 2
    /\ clusters[1].count = MaxRecords - 1
    /\ clusters[2].count = 1

\* C28: templates only generalize.  The Text tokens of a cluster's running
\* pattern are, in order, a subsequence of the cluster's representative and
\* of every record that went into the cluster; a process_line call leaves
\* the Text tokens of every running pattern a subsequence of what they were,
\* so their number never grows.
C28_TemplatesOnlyGeneralize ==
    /\ [](\A i \in 1..Len(clusters) :
            /\ IsSubsequence(TextTokens(clusters[i].pattern), clusters[i].representative)
            /\ \A k \in 1..Len(members[i]) :
                 IsSubsequence(TextTokens(clusters[i].pattern),
                               Tokenize(members[i][k].line)))
    /\ [][\A line \in Lines :
            (IsCall(line) /\ ProcessLine(line)) =>
               \A i \in 1..Len(clusters) :
                  /\ IsSubsequence(TextTokens(clusters'[i].pattern),
                                   TextTokens(clusters[i].pattern))
                  /\ Len(TextTokens(clusters'[i].pattern))
                        <= Len(TextTokens(clusters[i].pattern))
      ]_vars

\* C28 witness: three records of three tokens went into one cluster whose
\* running pattern has lost a Text token at the second merge and at the
\* third, and holds one Text token of its representative
C28_Witness ==
    /\ Len(clusters) = 1
    /\ clusters[1].count = 3
    /\ Len(clusters[1].representative) = 3
    /\ Len(TextTokens(clusters[1].pattern)) = 1
    /\ \A k \in 1..3 : Len(Tokenize(members[1][k].line)) = 3

\* no two clusters of a list have representatives within max_dist of each
\* other
Separated(cs) ==
    \A i, j \in 1..Len(cs) :
       i # j => ~RepresentativesWithin(cs[i], cs[j])

\* C29: representatives stay pairwise separated: in the list of a clusterer,
\* driven directly or by a worker, and in the coordinator's total after
\* every reduction step, any two distinct clusters have representatives
\* whose distance exceeds max_dist.
C29_RepresentativesSeparated ==
    /\ Separated(clusters)
    /\ Separated(total)
    /\ \A w \in Threads : Separated(worker_clusters[w])

\* C29 witness: the coordinator has folded the list of one worker into a
\* total of two clusters and the list of the other worker, not empty, is
\* still in the channel
C29_Witness ==
    /\ main_pc = "recv"
    /\ num_threads = 2
    /\ Len(total) = 2
    /\ Len(rx) = 1
    /\ Head(rx) # <<>>

\* C30: two records with the same non-empty token sequence processed by one
\* clusterer, whatever is processed between them, go into the same cluster.
C30_EqualRecordsShareCluster ==
    \A i, j \in 1..Len(members) :
       \A c1 \in Range(members[i]), c2 \in Range(members[j]) :
          (Tokenize(c1.line) = Tokenize(c2.line) /\ Tokenize(c1.line) # <<>>) => i = j

\* C30: with max_dist 0.0 the record "a a a a a a" was processed twice and
\* is the representative of two clusters of count 1
C30_EqualRecordsApart ==
    /\ options.max_dist = Frac(0, 1)
    /\ Len(clusters) = 2
    /\ clusters[1].representative = TokenRun(6, 6)
    /\ clusters[2].representative = TokenRun(6, 6)
    /\ clusters[1].count = 1 /\ clusters[2].count = 1

====
